---------------------------- MODULE Spec2Model ----------------------------
(***************************************************************************)
(* Campus Cart V2 (src/Code.js): order interpretation and aggregation.     *)
(*                                                                         *)
(* Strings are sequences of one-character strings, so that trim, includes, *)
(* toLowerCase and the two regular expressions of the parser are computed  *)
(* character by character.  A JavaScript value that may be a non-string is *)
(* a record [type, str]; see Str, Null, Undefined, Num.                    *)
(* Prices are kept in hundredths (parseFloat of \d+(\.\d{2})? is a decimal *)
(* with at most two fraction digits).                                      *)
(***************************************************************************)
EXTENDS Integers, Sequences, FiniteSets, TLC

\* ------------------------------------------------------------------------
\* Bounds of the model
\* ------------------------------------------------------------------------
MaxLen == 5            \* longest text of the exhaustive text set
MaxEntries == 2        \* most entries in a comma/newline separated text
MaxSubmissions == 2    \* most rows of the sheet while the form is open
MaxTriggers == 4       \* most triggers of the project before a setup function runs
MaxRows == 3           \* most rows of the response sheet

\* ------------------------------------------------------------------------
\* JavaScript values and strings
\* ------------------------------------------------------------------------
Str(s) == [type |-> "string", str |-> s]
Null == [type |-> "null", str |-> <<>>]
Undefined == [type |-> "undefined", str |-> <<>>]
Num == [type |-> "number", str |-> <<>>]       \* a non-zero number

\* !v is false exactly for these values
Truthy(v) == \/ v.type = "string" /\ v.str # <<>>
             \/ v.type = "number"

UpperCase == <<"A","B","C","D","E","F","G","H","I","J","K","L","M",
               "N","O","P","Q","R","S","T","U","V","W","X","Y","Z">>
LowerCase == <<"a","b","c","d","e","f","g","h","i","j","k","l","m",
               "n","o","p","q","r","s","t","u","v","w","x","y","z">>
Range(f) == {f[i] : i \in DOMAIN f}

\* the regular expression classes \d, \s and \w
Digit == {"0","1","2","3","4","5","6","7","8","9"}
Space == {" ", "\n", "\t"}
Word == Range(UpperCase) \cup Range(LowerCase) \cup Digit \cup {"_"}

\* String.prototype.toLowerCase
toLowerCase(s) ==
  [i \in 1..Len(s) |->
     IF s[i] \in Range(UpperCase)
     THEN LowerCase[CHOOSE k \in 1..26 : UpperCase[k] = s[i]]
     ELSE s[i]]

\* String.prototype.includes: sub occurs in s as a contiguous substring
includes(s, sub) ==
  \E i \in 1..(Len(s) - Len(sub) + 1) : SubSeq(s, i, i + Len(sub) - 1) = sub

\* the end (exclusive) of the longest run of characters of class C from i
RECURSIVE RunEnd(_, _, _)
RunEnd(s, i, C) ==
  IF i <= Len(s) /\ s[i] \in C THEN RunEnd(s, i + 1, C) ELSE i

\* the start (exclusive) of the longest run of class C ending at i
RECURSIVE RunStart(_, _, _)
RunStart(s, i, C) ==
  IF i >= 1 /\ s[i] \in C THEN RunStart(s, i - 1, C) ELSE i

\* String.prototype.trim
trim(s) ==
  LET a == RunEnd(s, 1, Space)
      b == RunStart(s, Len(s), Space)
  IN IF a > b THEN <<>> ELSE SubSeq(s, a, b)

DigitValue(c) == CHOOSE v \in 0..9 : <<"0","1","2","3","4","5","6","7","8","9">>[v + 1] = c

\* parseInt of a string of digits
RECURSIVE parseInt(_)
parseInt(d) ==
  IF d = <<>> THEN 0
  ELSE 10 * parseInt(SubSeq(d, 1, Len(d) - 1)) + DigitValue(d[Len(d)])

\* parseFloat of a string matched by \d+(?:\.\d{2})?, in hundredths
parseFloat(p) ==
  IF Len(p) >= 3 /\ p[Len(p) - 2] = "."
  THEN 100 * parseInt(SubSeq(p, 1, Len(p) - 3)) + parseInt(SubSeq(p, Len(p) - 1, Len(p)))
  ELSE 100 * parseInt(p)

\* ------------------------------------------------------------------------
\* determineOrderField (src/Code.js 81-132)
\* ------------------------------------------------------------------------
S_pickup == <<"p", "i", "c", "k", "u", "p">>
S_delivery == <<"d", "e", "l", "i", "v", "e", "r", "y">>
S_order == <<"o", "r", "d", "e", "r">>
S_agree == <<"a", "g", "r", "e", "e">>

\* determineOrderField with the length comparison of line 122 turned into >=
determineOrderFieldBranch_TieToField1(field1, field2, selectedType) ==
  IF ~Truthy(field1) /\ ~Truthy(field2) THEN "null"
  ELSE IF Truthy(field1) /\ ~Truthy(field2) THEN "field1"
  ELSE IF Truthy(field2) /\ ~Truthy(field1) THEN "field2"
  ELSE LET typeHint == toLowerCase(selectedType.str)
       IN IF Truthy(selectedType)
             /\ (includes(typeHint, S_pickup) \/ includes(typeHint, S_delivery))
          THEN "field2"
          ELSE IF Truthy(selectedType) /\ includes(typeHint, S_order)
          THEN "field1"
          ELSE IF Len(field1.str) >= Len(field2.str) THEN "field1"
          ELSE "field2"

\* determineOrderField with the type hint consulted before the checks for an
\* empty field (lines 90-98 moved below line 119)
determineOrderFieldBranch_HintFirst(field1, field2, selectedType) ==
  LET typeHint == toLowerCase(selectedType.str)
  IN IF ~Truthy(field1) /\ ~Truthy(field2) THEN "null"
     ELSE IF Truthy(selectedType)
             /\ (includes(typeHint, S_pickup) \/ includes(typeHint, S_delivery))
     THEN "field2"
     ELSE IF Truthy(selectedType) /\ includes(typeHint, S_order) THEN "field1"
     ELSE IF Truthy(field1) /\ ~Truthy(field2) THEN "field1"
     ELSE IF Truthy(field2) /\ ~Truthy(field1) THEN "field2"
     ELSE IF Len(field1.str) > Len(field2.str) THEN "field1"
     ELSE "field2"

\* which return statement is reached: "null" (line 86), "field1" (lines 92,
\* 117, 124) or "field2" (lines 97, 111, 127)
determineOrderFieldBranch(field1, field2, selectedType) ==
  IF ~Truthy(field1) /\ ~Truthy(field2) THEN "null"
  ELSE IF Truthy(field1) /\ ~Truthy(field2) THEN "field1"
  ELSE IF Truthy(field2) /\ ~Truthy(field1) THEN "field2"
  ELSE LET typeHint == toLowerCase(selectedType.str)
       IN IF Truthy(selectedType)
             /\ (includes(typeHint, S_pickup) \/ includes(typeHint, S_delivery))
          THEN "field2"
          ELSE IF Truthy(selectedType) /\ includes(typeHint, S_order)
          THEN "field1"
          ELSE IF Len(field1.str) > Len(field2.str) THEN "field1"
          ELSE "field2"

\* the value returned
determineOrderField(field1, field2, selectedType) ==
  LET branch == determineOrderFieldBranch(field1, field2, selectedType)
  IN IF branch = "null" THEN Null
     ELSE IF branch = "field1" THEN field1
     ELSE field2

\* ------------------------------------------------------------------------
\* calculateDeliveryFee (src/Code.js 469-491)
\* ------------------------------------------------------------------------
\* lines 470-482: the zone lists
near ==
  <<<<"S", "t", "o", "r", "e", " ", "N", "e", "a", "r", " ", "A", "U", "P">>,
    <<"D", "a", "l", "i", " ", "P", "u", "t", "t", "i", "n", "g", " ", "K", "a", "h", "o", "y">>,
    <<"L", "o", "c", "a", "l", " ", "S", "a", "r", "i", " ", "S", "a", "r", "i", " ", "S", "t", "o", "r", "e">>,
    <<"D", "a", "n", "t", "e", "'", "s">>,
    <<"C", "a", "n", "t", "e", "e", "n">>,
    <<"A", "U", "P", " ", "C", "a", "f", "e", "t", "e", "r", "i", "a">>,
    <<"L", "o", "a", "d", "i", "n", "g", " ", "S", "n", "a", "c", "k", "s">>,
    <<"K", "u", "s", "i", "n", "a", " ", "n", "i", " ", "A", "t", "e">>,
    <<"C", "h", "o", "o", "k", "s", "-", "t", "o", "-", "G", "o", " ", "(", "P", "u", "t", "i", "n", "g", " ", "K", "a", "h", "o", "y", ")">>,
    <<"B", "u", "r", "g", "e", "r", "s", " ", "&", " ", "F", "r", "i", "e", "s", " ", "S", "t", "a", "l", "l", "s", " ", "(", "n", "e", "a", "r", " ", "t", "r", "i", "k", "e", " ", "t", "e", "r", "m", "i", "n", "a", "l", ")">>>>

far ==
  <<<<"S", "a", "n", "t", "a", " ", "R", "o", "s", "a", " ", "H", "e", "i", "g", "h", "t", "s">>,
    <<"W", "e", "t", " ", "M", "a", "r", "k", "e", "t">>,
    <<"D", "a", "l", "i", " ", "S", "a", "n", "t", "a", " ", "R", "o", "s", "a">>,
    <<"S", "a", "f", "e", " ", "M", "o", "r", "e">>,
    <<"A", "n", "d", "o", "k", "'", "s", " ", "S", "a", "n", "t", "a", " ", "R", "o", "s", "a">>,
    <<"M", "i", "n", "i", " ", "S", "t", "o", "p">>,
    <<"7", "-", "E", "l", "e", "v", "e", "n">>,
    <<"7", " ", "E", "l", "e", "v", "e", "n">>>>

veryFar ==
  <<<<"P", "a", "s", "e", "o">>,
    <<"N", "u", "v", "a", "l", "i">>,
    <<"F", "r", "e", "s", "h", " ", "M", "a", "r", "k", "e", "t">>,
    <<"S", "o", "u", "t", "h", " ", "M", "a", "l", "l">>,
    <<"R", "o", "b", "i", "n", "s", "o", "n">>,
    <<"A", "l", "l", " ", "H", "o", "m", "e">>,
    <<"S", "M", " ", "C", "i", "t", "y", " ", "S", "t", "a", ".", " ", "R", "o", "s", "a">>>>

\* zones.some(zone => normalized.includes(zone.toLowerCase()))
someZone(zones, normalized) ==
  \E k \in 1..Len(zones) : includes(normalized, toLowerCase(zones[k]))

\* calculateDeliveryFee with the far list tested before the very far list
calculateDeliveryFee_FarFirst(store) ==
  IF ~Truthy(store) \/ store.type # "string" THEN 0
  ELSE LET normalized == toLowerCase(store.str)
       IN IF someZone(far, normalized) THEN 99
          ELSE IF someZone(veryFar, normalized) THEN 199
          ELSE IF someZone(near, normalized) THEN 69
          ELSE 0

\* calculateDeliveryFee charging the near fee where it finds no zone
calculateDeliveryFee_DefaultNear(store) ==
  IF ~Truthy(store) \/ store.type # "string" THEN 69
  ELSE LET normalized == toLowerCase(store.str)
       IN IF someZone(veryFar, normalized) THEN 199
          ELSE IF someZone(far, normalized) THEN 99
          ELSE 69

calculateDeliveryFee(store) ==
  IF ~Truthy(store) \/ store.type # "string" THEN 0
  ELSE LET normalized == toLowerCase(store.str)
       IN IF someZone(veryFar, normalized) THEN 199
          ELSE IF someZone(far, normalized) THEN 99
          ELSE IF someZone(near, normalized) THEN 69
          ELSE 0

\* ------------------------------------------------------------------------
\* parseOrderItemsEnhanced (src/Code.js 136-227)
\* ------------------------------------------------------------------------
NoMatch == [ok |-> FALSE, name |-> <<>>, qty |-> <<>>, price |-> <<>>, end |-> 0]

\* /([\w\s]+?)\s+(\d+)\s*@\s*(\d+(?:\.\d{2})?)/ after the name group, which
\* ends before n.  Every quantifier after the name is greedy and is followed
\* by a character outside its class, so giving characters back never helps:
\* \s+ must end at the first digit, (\d+) at the first non-digit, \s* at the
\* '@', and the price takes the longest digit run and then ".dd" if present.
itemizedPattern(s, n) ==
  LET w == RunEnd(s, n, Space)
      d == RunEnd(s, w, Digit)
      a == RunEnd(s, d, Space)
      b == RunEnd(s, a + 1, Space)
      c == RunEnd(s, b, Digit)
      e == IF c + 2 <= Len(s) /\ s[c] = "." /\ s[c + 1] \in Digit /\ s[c + 2] \in Digit
           THEN c + 3 ELSE c
  IN IF w > n /\ d > w /\ a <= Len(s) /\ s[a] = "@" /\ c > b
     THEN [ok |-> TRUE, name |-> <<>>, qty |-> SubSeq(s, w, d - 1),
           price |-> SubSeq(s, b, e - 1), end |-> e]
     ELSE NoMatch

\* /([\w\s]+?)\s+(\d+)(?!\s*@)/ after the name group.  (\d+) is greedy; when
\* the lookahead (?!\s*@) rejects the whole digit run, the engine gives one
\* digit back, and there the lookahead sees a digit and accepts.
prepaidPattern(s, n) ==
  LET w == RunEnd(s, n, Space)
      d == RunEnd(s, w, Digit)
      a == RunEnd(s, d, Space)
      followedByAt == a <= Len(s) /\ s[a] = "@"
      e == IF followedByAt THEN d - 1 ELSE d
  IN IF w > n /\ e > w
     THEN [ok |-> TRUE, name |-> <<>>, qty |-> SubSeq(s, w, e - 1),
           price |-> <<>>, end |-> e]
     ELSE NoMatch

Pattern(kind, s, n) ==
  IF kind = "itemized" THEN itemizedPattern(s, n) ELSE prepaidPattern(s, n)

\* one match attempt at start position p: the lazy name group ([\w\s]+?)
\* takes the shortest name for which the rest of the pattern matches
MatchAt(kind, s, p) ==
  LET m == RunEnd(s, p, Word \cup Space)
      ends == {n \in (p + 1)..m : Pattern(kind, s, n).ok}
  IN IF ends = {} THEN NoMatch
     ELSE LET n == CHOOSE x \in ends : \A y \in ends : x <= y
          IN [Pattern(kind, s, n) EXCEPT !.name = SubSeq(s, p, n - 1)]

\* String.prototype.matchAll with a global pattern: leftmost match from p,
\* then on from the end of that match
RECURSIVE matchAll(_, _, _)
matchNext(kind, s, p, r) ==
  IF r.ok THEN <<r>> \o matchAll(kind, s, r.end)
  ELSE matchAll(kind, s, p + 1)

matchAll(kind, s, p) ==
  IF p > Len(s) THEN <<>> ELSE matchNext(kind, s, p, MatchAt(kind, s, p))

Failure(kind) == [success |-> FALSE, error |-> kind, items |-> <<>>, type |-> "null"]
Success(items, type) == [success |-> TRUE, items |-> items, type |-> type, error |-> "null"]

\* lines 158-162
itemizedItem(match) ==
  [name |-> trim(match.name), quantity |-> parseInt(match.qty),
   price |-> parseFloat(match.price)]

\* prepaidItem with the price taken from the match as in the itemized branch
prepaidItem_Priced(match) ==
  [name |-> trim(match.name), quantity |-> parseInt(match.qty),
   price |-> parseFloat(match.qty)]

\* lines 183-187
prepaidItem(match) ==
  [name |-> trim(match.name), quantity |-> parseInt(match.qty), price |-> 0]

\* lines 165-167
validItemized(item) == item.name # <<>> /\ item.quantity > 0 /\ item.price >= 0

\* a filter that keeps every prepaid match
validPrepaid_Any(item) == TRUE

\* lines 190-192
validPrepaid(item) == item.name # <<>> /\ item.quantity > 0

\* formatError with the digit test ahead of the '@' test
formatError_DigitFirst(cleanText) ==
  IF \E i \in 1..Len(cleanText) : cleanText[i] \in Digit THEN "invalid_prepaid_format"
  ELSE IF includes(cleanText, <<"@">>) THEN "invalid_itemized_format"
  ELSE "unrecognizable_format"

\* lines 204-226: neither format worked
formatError(cleanText) ==
  IF includes(cleanText, <<"@">>) THEN "invalid_itemized_format"
  ELSE IF \E i \in 1..Len(cleanText) : cleanText[i] \in Digit THEN "invalid_prepaid_format"
  ELSE "unrecognizable_format"

\* lines 182-226: the prepaid matches, and the classified failure
prepaidResult(cleanText, prepaidMatches) ==
  LET items == [i \in 1..Len(prepaidMatches) |-> prepaidItem(prepaidMatches[i])]
      validItems == SelectSeq(items, validPrepaid)
  IN IF Len(prepaidMatches) > 0 /\ Len(validItems) = Len(items)
     THEN Success(validItems, "prepaid")
     ELSE Failure(formatError(cleanText))

\* the two attempts in the other order: prepaid first, itemized after it
itemizedResult_PrepaidFirst(cleanText, itemizedMatches) ==
  LET items == [i \in 1..Len(itemizedMatches) |-> itemizedItem(itemizedMatches[i])]
      validItems == SelectSeq(items, validItemized)
      prepaid == prepaidResult(cleanText, matchAll("prepaid", cleanText, 1))
  IN IF prepaid.success THEN prepaid
     ELSE IF Len(itemizedMatches) > 0 /\ Len(validItems) = Len(items)
     THEN Success(validItems, "itemized")
     ELSE prepaid

\* lines 157-180: the itemized matches, else the prepaid attempt
itemizedResult(cleanText, itemizedMatches) ==
  LET items == [i \in 1..Len(itemizedMatches) |-> itemizedItem(itemizedMatches[i])]
      validItems == SelectSeq(items, validItemized)
  IN IF Len(itemizedMatches) > 0 /\ Len(validItems) = Len(items)
     THEN Success(validItems, "itemized")
     ELSE prepaidResult(cleanText, matchAll("prepaid", cleanText, 1))

\* lines 146-155
parseCleanText(cleanText) ==
  itemizedResult(cleanText, matchAll("itemized", cleanText, 1))

\* the parser without the guard of line 137, the text of a missing value
\* being empty
parseOrderItemsEnhanced_NoGuard(text) == parseCleanText(trim(text.str))

parseOrderItemsEnhanced(text) ==
  IF ~Truthy(text) \/ text.type # "string" THEN Failure("empty_order")
  ELSE parseCleanText(trim(text.str))

\* ------------------------------------------------------------------------
\* onFormSubmit (src/Code.js 2-77), the part that decides the outcome
\* ------------------------------------------------------------------------
\* e.values, destructured at line 16 (the fields that are only copied into
\* the order, phone, location, room, payment, are left out)
Values(timestamp, email, orderType, orderField1, orderField2, store, termsAccepted) ==
  [timestamp |-> timestamp, email |-> email, orderType |-> orderType,
   orderField1 |-> orderField1, orderField2 |-> orderField2, store |-> store,
   termsAccepted |-> termsAccepted]

NoTimestamp == [day |-> 0, time |-> 0]

NoOrder ==
  [timestamp |-> NoTimestamp, email |-> Null, items |-> <<>>, subtotal |-> 0,
   deliveryFee |-> 0, total |-> 0, store |-> Null, orderType |-> "null",
   selectedOrderType |-> Null, orderSource |-> "null"]

\* the reduce with the quantity left out of each line
RECURSIVE reduceSubtotal_PriceOnly(_)
reduceSubtotal_PriceOnly(items) ==
  IF items = <<>> THEN 0
  ELSE reduceSubtotal_PriceOnly(SubSeq(items, 1, Len(items) - 1)) + items[Len(items)].price

\* items.reduce((sum, item) => sum + item.quantity * (item.price || 0), 0),
\* in hundredths
RECURSIVE reduceSubtotal(_)
reduceSubtotal(items) ==
  IF items = <<>> THEN 0
  ELSE reduceSubtotal(SubSeq(items, 1, Len(items) - 1))
         + items[Len(items)].quantity * items[Len(items)].price

\* rawOrder === orderField1 ? 'field1' : 'field2' (lines 52 and 892)
orderSource(rawOrder, orderField1) ==
  IF rawOrder = orderField1 THEN "field1" ELSE "field2"

\* lines 44-53; subtotal and total are in hundredths, deliveryFee in pesos
orderRecord(data, rawOrder, parseResult, subtotal, deliveryFee) ==
  [timestamp |-> data.timestamp, email |-> data.email,
   items |-> parseResult.items, subtotal |-> subtotal,
   deliveryFee |-> deliveryFee, total |-> subtotal + 100 * deliveryFee,
   store |-> data.store, orderType |-> parseResult.type,
   selectedOrderType |-> data.orderType,
   orderSource |-> orderSource(rawOrder, data.orderField1)]

\* lines 39-53
orderDetails(data, rawOrder, parseResult) ==
  orderRecord(data, rawOrder, parseResult, reduceSubtotal(parseResult.items),
              calculateDeliveryFee(data.store))

Rejected(outcome, error) == [outcome |-> outcome, error |-> error, order |-> NoOrder]
Built(order) == [outcome |-> "Order", error |-> "null", order |-> order]

\* line 21
incomplete(data) ==
  \/ ~Truthy(data.termsAccepted)
  \/ ~includes(toLowerCase(data.termsAccepted.str), S_agree)
  \/ ~includes(data.email.str, <<"@">>)

\* lines 34-53: return at line 36 (Unparseable with the parser's error) or
\* the order built
afterParse(data, rawOrder, parseResult) ==
  IF ~parseResult.success THEN Rejected("Unparseable", parseResult.error)
  ELSE Built(orderDetails(data, rawOrder, parseResult))

\* onFormSubmit with the check for a missing order (line 26) ahead of the
\* check for an incomplete submission (line 21)
validated_NoOrderFirst(data, rawOrder) ==
  IF ~Truthy(rawOrder) THEN Rejected("NoOrderProvided", "null")
  ELSE IF incomplete(data) THEN Rejected("IncompleteSubmission", "null")
  ELSE afterParse(data, rawOrder, parseOrderItemsEnhanced(rawOrder))

\* lines 21-32: the return statement reached (23: IncompleteSubmission,
\* 28: NoOrderProvided), else on to the parser
validated(data, rawOrder) ==
  IF incomplete(data) THEN Rejected("IncompleteSubmission", "null")
  ELSE IF ~Truthy(rawOrder) THEN Rejected("NoOrderProvided", "null")
  ELSE afterParse(data, rawOrder, parseOrderItemsEnhanced(rawOrder))

\* lines 16-53: the outcome of a submission
onFormSubmitResult(data) ==
  validated(data, determineOrderField(data.orderField1, data.orderField2, data.orderType))

\* the receipt column of a processed row (line 70): the check mark U+2713,
\* a space and new Date().toLocaleString(); CheckMark is that one character
CheckMark == "U+2713"
ProcessedMark == <<CheckMark, " ", "1", "/", "1">>

\* line 10
isDuplicate(status) == Truthy(status) /\ includes(toLowerCase(status.str), <<CheckMark>>)

Call(fn, arg) == [fn |-> fn, arg |-> arg]

\* ------------------------------------------------------------------------
\* sendDailySummary (src/Code.js 840-950)
\* ------------------------------------------------------------------------
Today == 1

\* lines 853-856: rows whose timestamp lies within today
RECURSIVE todayOrders(_)
todayOrders(rows) ==
  IF rows = <<>> THEN <<>>
  ELSE LET rest == todayOrders(SubSeq(rows, 1, Len(rows) - 1))
           row == rows[Len(rows)]
       IN IF row.timestamp.day = Today THEN Append(rest, row) ELSE rest

\* lines 858-864
newSummary(rows) ==
  [totalOrders |-> Len(rows), totalRevenue |-> 0, totalDelivery |-> 0,
   orders |-> <<>>, storeGroups |-> <<>>]

\* line 863: storeGroups is a plain object, so its keys enumerate as every
\* own property of an object does: the keys that are array indices (the
\* decimal numerals without a leading zero) first, in ascending numeric
\* order, then the other keys in the order they were added
isArrayIndex(key) ==
  /\ key # <<>>
  /\ Len(key) <= 9
  /\ \A i \in 1..Len(key) : key[i] \in Digit
  /\ Len(key) = 1 \/ key[1] # "0"

\* line 899: the place of a new key among the entries of storeGroups
addKey(storeGroups, entry) ==
  IF isArrayIndex(entry.store.str)
  THEN LET k == Cardinality({j \in 1..Len(storeGroups) :
                   /\ isArrayIndex(storeGroups[j].store.str)
                   /\ parseInt(storeGroups[j].store.str) < parseInt(entry.store.str)})
       IN SubSeq(storeGroups, 1, k) \o <<entry>> \o SubSeq(storeGroups, k + 1, Len(storeGroups))
  ELSE Append(storeGroups, entry)

\* lines 897-901: storeGroups is kept as the sequence of its [store, orders]
\* entries in the order its keys enumerate; store is the text of a sheet cell
pushToGroup(storeGroups, store, orderData) ==
  IF \E k \in 1..Len(storeGroups) : storeGroups[k].store = store
  THEN [k \in 1..Len(storeGroups) |->
          IF storeGroups[k].store = store
          THEN [storeGroups[k] EXCEPT !.orders = Append(@, orderData)]
          ELSE storeGroups[k]]
  ELSE addKey(storeGroups, [store |-> store, orders |-> <<orderData>>])

\* the accumulation with the fee of a prepaid order left out of totalDelivery
addOrder_ItemizedFeesOnly(summary, orderData) ==
  [summary EXCEPT
     !.totalRevenue = @ + orderData.subtotal,
     !.totalDelivery = @ + (IF orderData.orderType = "itemized" THEN orderData.deliveryFee ELSE 0),
     !.orders = Append(@, orderData),
     !.storeGroups = pushToGroup(@, orderData.store, orderData)]

\* lines 882-901
addOrder(summary, orderData) ==
  [summary EXCEPT
     !.totalRevenue = @ + orderData.subtotal,
     !.totalDelivery = @ + orderData.deliveryFee,
     !.orders = Append(@, orderData),
     !.storeGroups = pushToGroup(@, orderData.store, orderData)]

\* lines 888-894: the order of a row, which has no total
orderDataRecord(row, rawOrder, parseResult, subtotal, deliveryFee) ==
  [timestamp |-> row.timestamp, email |-> row.email, store |-> row.store,
   items |-> parseResult.items, subtotal |-> subtotal, deliveryFee |-> deliveryFee,
   orderType |-> parseResult.type, selectedOrderType |-> row.orderType,
   orderSource |-> orderSource(rawOrder, row.orderField1)]

\* the order of a row with the fee charged to itemized orders only
orderData_PrepaidFree(row, rawOrder, parseResult) ==
  orderDataRecord(row, rawOrder, parseResult, reduceSubtotal(parseResult.items),
                  IF parseResult.type = "itemized" THEN calculateDeliveryFee(row.store) ELSE 0)

\* lines 879-894
orderData(row, rawOrder, parseResult) ==
  orderDataRecord(row, rawOrder, parseResult, reduceSubtotal(parseResult.items),
                  calculateDeliveryFee(row.store))

\* lines 875-901
addParsed(summary, row, rawOrder, parseResult) ==
  IF ~parseResult.success THEN summary
  ELSE addOrder(summary, orderData(row, rawOrder, parseResult))

\* lines 871-901
addSelected(summary, row, rawOrder) ==
  IF ~Truthy(rawOrder) THEN summary
  ELSE addParsed(summary, row, rawOrder, parseOrderItemsEnhanced(rawOrder))

\* lines 868-901: the body of todayOrders.forEach
processRow(summary, row) ==
  addSelected(summary, row,
              determineOrderField(row.orderField1, row.orderField2, row.orderType))

RECURSIVE forEachRow(_, _)
forEachRow(summary, rows) ==
  IF rows = <<>> THEN summary
  ELSE forEachRow(processRow(summary, Head(rows)), Tail(rows))

\* lines 858-902
summarize(today) == forEachRow(newSummary(today), today)

\* lines 849-902
buildSummary(rows) == summarize(todayOrders(rows))

\* new Date(a.timestamp) - new Date(b.timestamp) < 0
Earlier(a, b) ==
  \/ a.timestamp.day < b.timestamp.day
  \/ a.timestamp.day = b.timestamp.day /\ a.timestamp.time < b.timestamp.time

\* a generator that lists the orders as it finds them
sortByTimestamp_Unsorted(orders) == orders

\* orders.sort((a, b) => new Date(a.timestamp) - new Date(b.timestamp))
\* (lines 789, 975, 1053); Array.prototype.sort is stable
RECURSIVE sortByTimestamp(_)
sortByTimestamp(orders) ==
  IF orders = <<>> THEN <<>>
  ELSE LET sorted == sortByTimestamp(SubSeq(orders, 1, Len(orders) - 1))
           x == orders[Len(orders)]
           k == Cardinality({i \in 1..Len(sorted) : ~Earlier(x, sorted[i])})
       IN SubSeq(sorted, 1, k) \o <<x>> \o SubSeq(sorted, k + 1, Len(sorted))

\* ------------------------------------------------------------------------
\* Order texts the parser is applied to
\* ------------------------------------------------------------------------
Sigma == {"a", "1", "0", " ", "@", ","}
ShortTexts == UNION {[1..n -> Sigma] : n \in 0..MaxLen}

\* written names, quantities and prices with the values they denote
Names == {<<"a">>, <<"a", " ", "b">>, <<"B", "u", "n">>}
Quantities == {[str |-> <<"1">>, val |-> 1], [str |-> <<"1", "2">>, val |-> 12],
               [str |-> <<"0", "2">>, val |-> 2], [str |-> <<"2", "0">>, val |-> 20]}
Prices == {[str |-> <<"5">>, val |-> 500], [str |-> <<"0">>, val |-> 0],
           [str |-> <<"8", "0">>, val |-> 8000],
           [str |-> <<"5", ".", "5", "0">>, val |-> 550],
           [str |-> <<"0", ".", "0", "5">>, val |-> 5],
           [str |-> <<"5", ".", "5">>, val |-> 550]}

\* '<name> <qty>@<price>' and '<name> <qty>'
ItemizedText(n, q, p) == n \o <<" ">> \o q.str \o <<"@">> \o p.str
PrepaidText(n, q) == n \o <<" ">> \o q.str
ItemizedTexts == {ItemizedText(n, q, p) : n \in Names, q \in Quantities, p \in Prices}
PrepaidTexts == {PrepaidText(n, q) : n \in Names, q \in Quantities}

\* entries of a comma or newline separated order text; kind "bad" is an entry
\* that is an item of neither format
Entries ==
  {[str |-> <<"a", " ", "1", "@", "5">>, kind |-> "itemized"],
   [str |-> <<"b", " ", "2", " ", "@", " ", "8", "0">>, kind |-> "itemized"],
   [str |-> <<"a", " ", "1">>, kind |-> "prepaid"],
   [str |-> <<"b", " ", "1", "2">>, kind |-> "prepaid"],
   [str |-> <<"b", " ", "@", "8", "0">>, kind |-> "bad"],
   [str |-> <<"b", " ", "0", "@", "5">>, kind |-> "bad"],
   [str |-> <<"b", " ", "1", "2", "@">>, kind |-> "bad"],
   [str |-> <<"b">>, kind |-> "bad"],
   [str |-> <<"a", " ", "0">>, kind |-> "bad"]}
Separators == {<<",">>, <<",", " ">>, <<"\n">>}

RECURSIVE Join(_, _)
Join(es, sep) ==
  IF Len(es) = 1 THEN es[1].str ELSE es[1].str \o sep \o Join(Tail(es), sep)

EntryLists == UNION {[1..k -> Entries] : k \in 1..MaxEntries}
EntryTexts == {Join(es, sep) : es \in EntryLists, sep \in Separators}

ParseInputs ==
  {Str(s) : s \in ShortTexts \cup ItemizedTexts \cup PrepaidTexts \cup EntryTexts}
    \cup {Str(<<" ", "a", " ", "1", "\n">>),
          Str(<<"b", " ", "0", "@", "5", ",", "a", " ", "1", "2", "@", "5">>),
          Null, Undefined, Num}

\* ------------------------------------------------------------------------
\* Order fields, declared types and store names the operations are applied to
\* ------------------------------------------------------------------------
FieldValues ==
  {Str(<<>>), Str(<<"a", " ", "1">>), Str(<<"b", " ", "2">>),
   Str(<<"a", " ", "1", "@", "5">>), Str(<<"b", " ", "@", "5">>), Str(<<" ">>)}

TypeValues ==
  {Str(<<>>), Undefined,
   Str(<<"O", "r", "d", "e", "r">>),
   Str(<<"P", "i", "c", "k", "u", "p">>),
   Str(<<"D", "E", "L", "I", "V", "E", "R", "Y">>),
   Str(<<"P", "i", "c", "k", "u", "p", " ", "o", "r", "d", "e", "r">>),
   Str(<<"O", "t", "h", "e", "r">>)}

StoreFragments ==
  {<<>>,
   <<"S", "M", " ", "C", "i", "t", "y", " ", "S", "t", "a", ".", " ", "R", "o", "s", "a">>,
   <<"P", "A", "S", "E", "O">>,
   <<"W", "e", "t", " ", "M", "a", "r", "k", "e", "t">>,
   <<"7", "-", "e", "l", "e", "v", "e", "n">>,
   <<"A", "U", "P", " ", "C", "a", "f", "e", "t", "e", "r", "i", "a">>,
   <<"c", "a", "n", "t", "e", "e", "n">>,
   <<"P", "a", "s", "e">>,
   <<"S", "h", "o", "p">>}

StoreValues ==
  {Str(f \o <<" ">> \o g) : f \in StoreFragments, g \in StoreFragments}
    \cup {Str(<<>>), Null, Undefined, Num,
          Str(<<"R", "a", "n", "d", "o", "m", " ", "U", "n", "k", "n", "o", "w", "n", " ", "S", "h", "o", "p">>)}

\* ------------------------------------------------------------------------
\* Submissions and sheet rows
\* ------------------------------------------------------------------------
T(day, time) == [day |-> day, time |-> time]

EmailValues == {Str(<<"a", "@", "b">>), Str(<<"a", "b">>), Str(<<>>)}

TermsValues ==
  {Str(<<"I", " ", "A", "g", "r", "e", "e">>), Str(<<"n", "o">>), Str(<<>>), Undefined}

SubmitTypes == {Str(<<>>), Str(<<"O", "r", "d", "e", "r">>), Str(<<"P", "i", "c", "k", "u", "p">>)}

SubmitFields ==
  {Str(<<>>), Str(<<"a", " ", "1">>), Str(<<"a", " ", "1", "@", "5">>),
   Str(<<"b", " ", "@", "5">>), Str(<<"b">>), Str(<<"b", " ", "0">>),
   Str(<<"a", " ", "2", "@", "5", ",", "b", " ", "3", "@", "0", ".", "5", "0">>)}

SubmitStores ==
  {Str(<<>>), Str(<<"P", "A", "S", "E", "O">>), Str(<<"c", "a", "n", "t", "e", "e", "n">>),
   Str(<<"S", "h", "o", "p">>)}

Submissions ==
  {Values(T(Today, 1), e, t, f1, f2, s, a) :
     e \in EmailValues, t \in SubmitTypes, f1 \in SubmitFields,
     f2 \in SubmitFields, s \in SubmitStores, a \in TermsValues}

Agree == Str(<<"I", " ", "a", "g", "r", "e", "e">>)
Mail == Str(<<"a", "@", "b">>)

\* rows of the response sheet read by sendDailySummary
DailyRows ==
  {Values(T(Today, 1), Mail, Str(<<"O", "r", "d", "e", "r">>), Str(<<"a", " ", "1", "@", "5">>), Str(<<>>),
          Str(<<"c", "a", "n", "t", "e", "e", "n">>), Agree),
   Values(T(Today, 2), Mail, Str(<<"P", "i", "c", "k", "u", "p">>), Str(<<>>), Str(<<"a", " ", "1">>),
          Str(<<"P", "A", "S", "E", "O">>), Agree),
   Values(T(Today, 3), Mail, Str(<<>>), Str(<<"b", " ", "@", "5">>), Str(<<>>),
          Str(<<"S", "h", "o", "p">>), Agree),
   Values(T(Today, 1), Mail, Str(<<>>), Str(<<>>), Str(<<>>),
          Str(<<"c", "a", "n", "t", "e", "e", "n">>), Agree),
   Values(T(Today - 1, 2), Mail, Str(<<>>), Str(<<"a", " ", "1">>), Str(<<>>),
          Str(<<"c", "a", "n", "t", "e", "e", "n">>), Agree),
   Values(T(Today, 0), Mail, Str(<<"P", "i", "c", "k", "u", "p">>), Str(<<"b", " ", "2">>), Str(<<"b", " ", "2">>),
          Str(<<"7">>), Agree),
   Values(T(Today, 2), Str(<<"a", "b">>), Str(<<>>), Str(<<"a", " ", "2", "@", "5", ".", "5", "0">>), Str(<<>>),
          Str(<<"W", "e", "t", " ", "M", "a", "r", "k", "e", "t">>), Str(<<"n", "o">>))}

SheetRow(values, receipt) == [values |-> values, receipt |-> receipt]

DailySheets ==
  UNION {[1..n -> {SheetRow(v, Str(<<>>)) : v \in DailyRows}] : n \in 0..MaxRows}

\* ------------------------------------------------------------------------
\* Triggers (src/Code.js 1353-1415)
\* ------------------------------------------------------------------------
Handlers ==
  {"sendDailySummary", "cleanupOldBackups", "generateBackupStatusReport", "onFormSubmit"}

TriggerLists == UNION {[1..n -> Handlers] : n \in 0..MaxTriggers}

\* lines 1355-1360 and 1375-1381: triggers.forEach deleting the triggers of
\* the given handler functions
deleteTriggers(list, handlers) ==
  LET kept(h) == h \notin handlers IN SelectSeq(list, kept)

\* createDailyTriggers without the removal of the existing triggers
createDailyTriggers_KeepOld(list) == Append(list, "sendDailySummary")

\* lines 1353-1370
createDailyTriggers(list) ==
  Append(deleteTriggers(list, {"sendDailySummary"}), "sendDailySummary")

\* lines 1373-1401
createBackupMaintenanceTriggers(list) ==
  deleteTriggers(list, {"cleanupOldBackups", "generateBackupStatusReport"})
    \o <<"cleanupOldBackups", "generateBackupStatusReport">>

\* lines 1405-1415: the two trigger setups, in this order
setupCampusCartSystem(list) ==
  createBackupMaintenanceTriggers(createDailyTriggers(list))

\* the values of pc under which the setup functions run
TriggerModes ==
  {"triggers.start", "triggers.createDailyTriggers",
   "triggers.createBackupMaintenanceTriggers", "triggers.setupCampusCartSystem"}

\* ------------------------------------------------------------------------
\* State
\* ------------------------------------------------------------------------
VARIABLES
  pc,            \* the operation being applied: "<operation>.call", then "<operation>.done"
  text,          \* parseOrderItemsEnhanced: argument
  parseResult,   \*   and return value
  field1,        \* determineOrderField: arguments
  field2,
  selectedType,
  selected,      \*   and return value
  storeName,     \* calculateDeliveryFee: argument
  fee,           \*   and return value
  sheet,         \* rows of "Form Responses 1" below the header: [values, receipt]
  inv,           \* invocations of onFormSubmit: [pc, values, rowIndex, result, calls]
  daily,         \* the run of sendDailySummary: [pc, summary, listings, calls]
  triggers       \* the project's triggers, by handler function, in the order
                 \*   ScriptApp.getProjectTriggers() returns them

vars == <<pc, text, parseResult, field1, field2, selectedType, selected,
          storeName, fee, sheet, inv, daily, triggers>>

parseVars == <<text, parseResult>>
selectVars == <<field1, field2, selectedType, selected>>
feeVars == <<storeName, fee>>

NoResult == Failure("not_called")
NotCalled == [type |-> "not_called", str |-> <<>>]

ParseIdle == text = Null /\ parseResult = NoResult
SelectIdle == field1 = Null /\ field2 = Null /\ selectedType = Null /\ selected = NotCalled
FeeIdle == storeName = Null /\ fee = -1
SheetIdle == sheet = <<>> /\ inv = <<>>

NoSummary == newSummary(<<>>)
NoListings == [pdf |-> <<>>, text |-> <<>>, html |-> <<>>]
DailyStart == [pc |-> "start", summary |-> NoSummary, listings |-> NoListings, calls |-> <<>>]
DailyIdle == daily = DailyStart
TriggersIdle == triggers = <<>>

\* ---- parseOrderItemsEnhanced applied to a text
InitParse ==
  /\ pc = "parse.call"
  /\ text \in ParseInputs
  /\ parseResult = NoResult
  /\ SelectIdle /\ FeeIdle /\ SheetIdle /\ DailyIdle /\ TriggersIdle

ParseOrderItemsEnhanced ==
  /\ pc = "parse.call"
  /\ parseResult' = parseOrderItemsEnhanced(text)
  /\ pc' = "parse.done"
  /\ UNCHANGED <<triggers, text, selectVars, feeVars, sheet, inv, daily>>

NextParse == ParseOrderItemsEnhanced
SpecParse == InitParse /\ [][NextParse]_vars

\* ---- determineOrderField applied to two fields and a declared type
InitSelect ==
  /\ pc = "select.call"
  /\ field1 \in FieldValues \cup {Null, Undefined}
  /\ field2 \in FieldValues \cup {Null, Undefined}
  /\ selectedType \in TypeValues
  /\ selected = NotCalled
  /\ ParseIdle /\ FeeIdle /\ SheetIdle /\ DailyIdle /\ TriggersIdle

DetermineOrderField ==
  /\ pc = "select.call"
  /\ selected' = determineOrderField(field1, field2, selectedType)
  /\ pc' = "select.done"
  /\ UNCHANGED <<triggers, parseVars, field1, field2, selectedType, feeVars, sheet, inv, daily>>

NextSelect == DetermineOrderField
SpecSelect == InitSelect /\ [][NextSelect]_vars

\* ---- calculateDeliveryFee applied to a store name
InitFee ==
  /\ pc = "fee.call"
  /\ storeName \in StoreValues
  /\ fee = -1
  /\ ParseIdle /\ SelectIdle /\ SheetIdle /\ DailyIdle /\ TriggersIdle

CalculateDeliveryFee ==
  /\ pc = "fee.call"
  /\ fee' = calculateDeliveryFee(storeName)
  /\ pc' = "fee.done"
  /\ UNCHANGED <<triggers, parseVars, selectVars, storeName, sheet, inv, daily>>

NextFee == CalculateDeliveryFee
SpecFee == InitFee /\ [][NextFee]_vars

\* the values of pc under which onFormSubmit runs
SubmitModes == {"submit", "form"}

\* ---- onFormSubmit: the form has appended the row of a submission to the
\* sheet and fired the trigger with e.values
NoRun == Rejected("pending", "null")

\* the delivery codes printed by generateReceiptPDF (line 521),
\* sendEmailConfirmation (line 394) and sendInstantOrderPing (line 335);
\* each is drawn with Math.random
DeliveryCodes == {"CC-A", "CC-B"}
NoCodes == [receipt |-> "none", email |-> "none", ping |-> "none"]

\* success is the value returned by sendEmailConfirmation (line 63)
Invocation(values) ==
  [pc |-> "start", values |-> values, rowIndex |-> 0, result |-> NoRun,
   calls |-> <<>>, success |-> "pending", codes |-> NoCodes]

InitSubmit ==
  /\ pc = "submit"
  /\ \E v \in Submissions : \E r \in {Str(<<>>), Str(ProcessedMark)} :
       /\ sheet = <<SheetRow(v, r)>>
       /\ inv = <<Invocation(v)>>
  /\ ParseIdle /\ SelectIdle /\ FeeIdle /\ DailyIdle /\ TriggersIdle

\* lines 5-53: the invocation after its first part, where rowIndex is
\* sheet.getLastRow(), status the receipt cell of that row and result the
\* outcome of lines 16-53
started(invocation, rowIndex, status, result) ==
  IF isDuplicate(status)
  THEN [invocation EXCEPT !.pc = "done", !.rowIndex = rowIndex,
                          !.result = Rejected("Duplicate", "null")]
  ELSE IF result.outcome = "IncompleteSubmission"
  THEN [invocation EXCEPT !.pc = "done", !.rowIndex = rowIndex, !.result = result,
                          !.calls = Append(@, Call("sendError", "incomplete"))]
  ELSE IF result.outcome = "NoOrderProvided"
  THEN [invocation EXCEPT !.pc = "done", !.rowIndex = rowIndex, !.result = result,
                          !.calls = Append(@, Call("sendError", "no_order"))]
  ELSE IF result.outcome = "Unparseable"
  THEN [invocation EXCEPT !.pc = "done", !.rowIndex = rowIndex, !.result = result,
                          !.calls = Append(@, Call("sendFormatCorrectionEmail", result.error))]
  ELSE [invocation EXCEPT !.pc = "deliver", !.rowIndex = rowIndex, !.result = result]

\* lines 2-53: read the row's status, validate, select, parse, build
OnFormSubmit_Start(i) ==
  /\ pc \in SubmitModes
  /\ inv[i].pc = "start"
  /\ inv' = [inv EXCEPT ![i] =
       started(@, Len(sheet), sheet[Len(sheet)].receipt, onFormSubmitResult(@.values))]
  /\ UNCHANGED <<triggers, pc, parseVars, selectVars, feeVars, sheet, daily>>

\* lines 495-506: generateReceiptPDF may throw, and then the handler sends
\* a notice to the admin with GmailApp.sendEmail outside any try block; that
\* call may throw as it may in sendEmailConfirmation (line 461), and the
\* exception then leaves onFormSubmit.  outcome is what the wrapper did:
\* returned the pdf, returned the fallback, or let the exception through
receiptCalls(outcome) ==
  IF outcome = "pdf"
  THEN <<Call("generateReceiptPDFWithFallback", "pdf")>>
  ELSE <<Call("generateReceiptPDFWithFallback", outcome),
         Call("GmailApp.sendEmail", "receipt_pdf_error")>>

\* lines 58-76: backup when there is a pdf, confirmation email, and on
\* success the mark and the admin ping
deliveryCalls(outcome, success) ==
  (IF outcome = "pdf" THEN <<Call("backupReceiptToMonth", "pdf")>> ELSE <<>>)
    \o <<Call("sendEmailConfirmation", IF outcome = "pdf" THEN "attached" ELSE "fallback")>>
    \o (IF success
        THEN <<Call("setValue", "mark"), Call("sendInstantOrderPing", "ping")>>
        ELSE <<>>)

\* lines 55-76: the invocation after its second part
delivered(invocation, outcome, success, codes) ==
  IF outcome = "thrown"
  THEN [invocation EXCEPT !.pc = "thrown", !.calls = @ \o receiptCalls(outcome)]
  ELSE [invocation EXCEPT
          !.pc = "done",
          !.calls = @ \o receiptCalls(outcome) \o deliveryCalls(outcome, success),
          !.success = IF success THEN "true" ELSE "false",
          !.codes = [receipt |-> IF outcome = "pdf" THEN codes.receipt ELSE "none",
                     email |-> IF success THEN codes.email ELSE "none",
                     ping |-> IF success THEN codes.ping ELSE "none"]]

\* a handler that marks the row whatever sendEmailConfirmation returned
marked_Always(rows, rowIndex, outcome, success) ==
  IF outcome # "thrown"
  THEN [rows EXCEPT ![rowIndex].receipt = Str(ProcessedMark)]
  ELSE rows

\* lines 69-71: sheet.getRange(rowIndex, receiptCol).setValue(...)
marked(rows, rowIndex, outcome, success) ==
  IF outcome # "thrown" /\ success
  THEN [rows EXCEPT ![rowIndex].receipt = Str(ProcessedMark)]
  ELSE rows

\* lines 55-76: receipt, backup, confirmation email, mark, admin ping
OnFormSubmit_Deliver(i) ==
  /\ pc \in SubmitModes
  /\ inv[i].pc = "deliver"
  /\ \E outcome \in {"pdf", "fallback", "thrown"} : \E success \in BOOLEAN :
     \E codes \in [receipt : DeliveryCodes, email : DeliveryCodes, ping : DeliveryCodes] :
       /\ inv' = [inv EXCEPT ![i] = delivered(@, outcome, success, codes)]
       /\ sheet' = marked(sheet, inv[i].rowIndex, outcome, success)
  /\ UNCHANGED <<triggers, pc, parseVars, selectVars, feeVars, daily>>

NextSubmit ==
  \/ \E i \in 1..Len(inv) : OnFormSubmit_Start(i)
  \/ \E i \in 1..Len(inv) : OnFormSubmit_Deliver(i)
SpecSubmit == InitSubmit /\ [][NextSubmit]_vars

\* ---- the form and its trigger: each submission appends a row to the sheet
\* and fires onFormSubmit with the values of that row; the invocations run
\* interleaved.  At the start the sheet is empty, or holds one processed
\* row whose trigger fires again
FormSubmissions ==
  {Values(T(Today, 1), Mail, Str(<<>>), Str(<<"a", " ", "1", "@", "5">>), Str(<<>>),
          Str(<<"P", "A", "S", "E", "O">>), Agree),
   Values(T(Today, 2), Str(<<"b", "@", "a">>), Str(<<>>), Str(<<>>), Str(<<"a", " ", "1">>),
          Str(<<"c", "a", "n", "t", "e", "e", "n">>), Agree),
   Values(T(Today, 3), Mail, Str(<<>>), Str(<<"b">>), Str(<<>>), Str(<<>>), Agree)}

InitForm ==
  /\ pc = "form"
  /\ \/ sheet = <<>> /\ inv = <<>>
     \/ \E v \in FormSubmissions :
          /\ sheet = <<SheetRow(v, Str(ProcessedMark))>>
          /\ inv = <<Invocation(v)>>
  /\ ParseIdle /\ SelectIdle /\ FeeIdle /\ DailyIdle /\ TriggersIdle

FormSubmit(v) ==
  /\ pc = "form"
  /\ Len(sheet) < MaxSubmissions
  /\ sheet' = Append(sheet, SheetRow(v, Str(<<>>)))
  /\ inv' = Append(inv, Invocation(v))
  /\ UNCHANGED <<triggers, pc, parseVars, selectVars, feeVars, daily>>

NextForm ==
  \/ \E v \in FormSubmissions : FormSubmit(v)
  \/ \E i \in 1..Len(inv) : OnFormSubmit_Start(i)
  \/ \E i \in 1..Len(inv) : OnFormSubmit_Deliver(i)
SpecForm == InitForm /\ [][NextForm]_vars

\* ---- sendDailySummary run over the sheet
InitDaily ==
  /\ pc = "daily"
  /\ sheet \in DailySheets
  /\ inv = <<>>
  /\ daily = DailyStart
  /\ ParseIdle /\ SelectIdle /\ FeeIdle /\ TriggersIdle

\* lines 840-902: filter today's rows and fold them into the summary
SendDailySummary_Build ==
  /\ pc = "daily"
  /\ daily.pc = "start"
  /\ daily' = [daily EXCEPT
       !.pc = "built",
       !.summary = buildSummary([k \in 1..Len(sheet) |-> sheet[k].values])]
  /\ UNCHANGED <<triggers, pc, parseVars, selectVars, feeVars, sheet, inv>>

\* lines 724-734: generateDispatchPDF may throw, before or after its sort,
\* and then the handler sends a notice to the admin with GmailApp.sendEmail
\* outside any try block; if that call throws, the exception leaves
\* sendDailySummary
dispatchPdfCalls(pdf, notified) ==
  IF pdf = "pdf"
  THEN <<Call("generateDispatchPDFWithFallback", "pdf"), Call("backupDispatchToMonth", "pdf")>>
  ELSE <<Call("generateDispatchPDFWithFallback", IF notified THEN "fallback" ELSE "thrown"),
         Call("GmailApp.sendEmail", "dispatch_pdf_error")>>

\* lines 917-948: the dispatch email, and the fallback email if it throws
dispatchEmailCalls(pdf, sent) ==
  <<Call("sendEmail", IF pdf = "pdf" THEN "attached" ELSE "no_attachment")>>
    \o (IF sent THEN <<>> ELSE <<Call("sendEmail", "fallback")>>)

\* lines 904-948: the run after the dispatch.  Each generator sorts
\* summary.orders in place before it lists the orders, unless totalOrders
\* is 0 (lines 766, 966, 1045)
dispatched(run, sorted, pdf, notified, sent) ==
  IF pdf # "pdf" /\ ~notified
  THEN [run EXCEPT
          !.pc = "thrown",
          !.summary.orders =
            IF run.summary.totalOrders # 0 /\ pdf = "thrown_after_sort" THEN sorted ELSE @,
          !.calls = @ \o dispatchPdfCalls(pdf, notified)]
  ELSE [run EXCEPT
          !.pc = "done",
          !.summary.orders = IF run.summary.totalOrders = 0 THEN @ ELSE sorted,
          !.listings =
            [pdf |-> IF run.summary.totalOrders = 0 \/ pdf # "pdf" THEN <<>> ELSE sorted,
             text |-> IF run.summary.totalOrders = 0 THEN <<>> ELSE sorted,
             html |-> IF run.summary.totalOrders = 0 THEN <<>> ELSE sorted],
          !.calls = @ \o dispatchPdfCalls(pdf, notified) \o dispatchEmailCalls(pdf, sent)]

\* lines 904-948: dispatch PDF, backup, text and HTML listings, email with
\* one fallback, whose failure is logged (line 946)
SendDailySummary_Dispatch ==
  /\ pc = "daily"
  /\ daily.pc = "built"
  /\ \E pdf \in {"pdf", "thrown_before_sort", "thrown_after_sort"} :
     \E notified \in BOOLEAN : \E sent \in BOOLEAN :
       daily' = dispatched(daily, sortByTimestamp(daily.summary.orders), pdf, notified, sent)
  /\ UNCHANGED <<triggers, pc, parseVars, selectVars, feeVars, sheet, inv>>

NextDaily == SendDailySummary_Build \/ SendDailySummary_Dispatch
SpecDaily == InitDaily /\ [][NextDaily]_vars

\* ---- the trigger setup functions run on a project that holds any triggers
InitTriggers ==
  /\ pc = "triggers.start"
  /\ triggers \in TriggerLists
  /\ ParseIdle /\ SelectIdle /\ FeeIdle /\ SheetIdle /\ DailyIdle

CreateDailyTriggers ==
  /\ pc \in TriggerModes
  /\ triggers' = createDailyTriggers(triggers)
  /\ pc' = "triggers.createDailyTriggers"
  /\ UNCHANGED <<parseVars, selectVars, feeVars, sheet, inv, daily>>

CreateBackupMaintenanceTriggers ==
  /\ pc \in TriggerModes
  /\ triggers' = createBackupMaintenanceTriggers(triggers)
  /\ pc' = "triggers.createBackupMaintenanceTriggers"
  /\ UNCHANGED <<parseVars, selectVars, feeVars, sheet, inv, daily>>

SetupCampusCartSystem ==
  /\ pc \in TriggerModes
  /\ triggers' = setupCampusCartSystem(triggers)
  /\ pc' = "triggers.setupCampusCartSystem"
  /\ UNCHANGED <<parseVars, selectVars, feeVars, sheet, inv, daily>>

NextTriggers ==
  CreateDailyTriggers \/ CreateBackupMaintenanceTriggers \/ SetupCampusCartSystem
SpecTriggers == InitTriggers /\ [][NextTriggers]_vars

\* ---- the functions of the program, each called on its own inputs
Init ==
  InitParse \/ InitSelect \/ InitFee \/ InitSubmit \/ InitDaily \/ InitTriggers
Next ==
  NextParse \/ NextSelect \/ NextFee \/ NextSubmit \/ NextDaily \/ NextTriggers
Spec == Init /\ [][Next]_vars

\* ------------------------------------------------------------------------
\* Properties of parseOrderItemsEnhanced
\* ------------------------------------------------------------------------
Item(n, q, p) == [name |-> n, quantity |-> q, price |-> p]
HasAt(s) == \E i \in 1..Len(s) : s[i] = "@"
HasDigit(s) == \E i \in 1..Len(s) : s[i] \in Digit

\* C1: for an order text of one or more entries separated by commas or
\* newlines, the parser succeeds only if every entry is a valid item of the
\* detected format, and then returns one item per entry; if any entry is
\* malformed the result is a failure with an empty item list.
C1_AllOrNothing ==
  pc = "parse.done" =>
    \A es \in EntryLists : \A sep \in Separators :
      text = Str(Join(es, sep)) =>
        /\ parseResult.success =>
             /\ \A i \in 1..Len(es) : es[i].kind = parseResult.type
             /\ Len(parseResult.items) = Len(es)
        /\ (\E i \in 1..Len(es) : es[i].kind = "bad") =>
             ~parseResult.success /\ parseResult.items = <<>>

\* C3: every text '<name> <qty>@<price>' with qty > 0 and a non-negative
\* decimal price parses to one itemized item with that name, quantity and
\* price.
C3_ItemizedRoundTrip ==
  pc = "parse.done" =>
    \A n \in Names : \A q \in Quantities : \A p \in Prices :
      (q.val > 0 /\ text = Str(ItemizedText(n, q, p))) =>
        parseResult = Success(<<Item(n, q.val, p.val)>>, "itemized")

\* C4: every text '<name> <qty>' without '@', with a name of letters and
\* spaces and qty > 0, parses to one prepaid item with that name, that
\* quantity and price 0.
C4_PrepaidRoundTrip ==
  pc = "parse.done" =>
    \A n \in Names : \A q \in Quantities :
      (q.val > 0 /\ text = Str(PrepaidText(n, q))) =>
        parseResult = Success(<<Item(n, q.val, 0)>>, "prepaid")

C4_Witness ==
  /\ pc = "parse.done"
  /\ text = Str(<<"a", " ", "b", " ", "1", "2">>)
  /\ parseResult.success
  /\ parseResult.type = "prepaid"

\* C5: a failure on a non-empty string has kind invalid_itemized_format if
\* the trimmed text contains '@', else invalid_prepaid_format if it contains
\* a digit, else unrecognizable_format, and an empty item list.
C5_FailureClassification ==
  (pc = "parse.done" /\ text.type = "string" /\ text.str # <<>> /\ ~parseResult.success) =>
    LET c == trim(text.str)
    IN /\ HasAt(c) => parseResult.error = "invalid_itemized_format"
       /\ (~HasAt(c) /\ HasDigit(c)) => parseResult.error = "invalid_prepaid_format"
       /\ (~HasAt(c) /\ ~HasDigit(c)) => parseResult.error = "unrecognizable_format"
       /\ parseResult.items = <<>>

C5_Witness ==
  /\ pc = "parse.done"
  /\ text.type = "string"
  /\ HasAt(text.str) /\ HasDigit(text.str)
  /\ ~parseResult.success
  /\ parseResult.error = "invalid_itemized_format"

\* C15: for the empty string, null, undefined and every value that is not a
\* string the parser returns failure with kind empty_order, an empty item
\* list and no type.
C15_EmptyOrder ==
  (pc = "parse.done" /\ (text.type # "string" \/ text.str = <<>>)) =>
    parseResult = [success |-> FALSE, error |-> "empty_order",
                   items |-> <<>>, type |-> "null"]

C15_Witness ==
  /\ pc = "parse.done"
  /\ text = Str(<<>>)
  /\ parseResult.error = "empty_order"

FailureKinds ==
  {"empty_order", "invalid_itemized_format", "invalid_prepaid_format",
   "unrecognizable_format"}

\* C17: every result of the parser is well formed.  On success the item list
\* is non-empty, the type is 'itemized' or 'prepaid', the error is null and
\* every item has a non-empty trimmed name, an integer quantity > 0 and a
\* price >= 0, which is 0 in a prepaid result; on failure the item list is
\* empty, the type is null and the error is one of the four failure kinds.
C17_ResultWellFormed ==
  pc = "parse.done" =>
    IF parseResult.success
    THEN /\ parseResult.items # <<>>
         /\ parseResult.type \in {"itemized", "prepaid"}
         /\ parseResult.error = "null"
         /\ \A k \in 1..Len(parseResult.items) :
              LET item == parseResult.items[k]
              IN /\ item.name # <<>>
                 /\ item.name[1] \notin Space
                 /\ item.name[Len(item.name)] \notin Space
                 /\ item.quantity \in Nat
                 /\ item.quantity > 0
                 /\ item.price >= 0
                 /\ parseResult.type = "prepaid" => item.price = 0
    ELSE /\ parseResult.items = <<>>
         /\ parseResult.type = "null"
         /\ parseResult.error \in FailureKinds

C17_Witness ==
  /\ pc = "parse.done"
  /\ parseResult.success
  /\ parseResult.type = "prepaid"
  /\ Len(parseResult.items) = 2
  /\ parseResult.items[2].quantity = 12

\* the items of the matches of the itemized pattern in a text, in text order
ItemizedFound(s) ==
  LET m == matchAll("itemized", trim(s), 1)
  IN [k \in 1..Len(m) |-> itemizedItem(m[k])]

AllValidItemized(items) ==
  \A k \in 1..Len(items) :
    items[k].name # <<>> /\ items[k].quantity > 0 /\ items[k].price >= 0

\* C18: the grammars are tried in fixed priority.  If the itemized pattern
\* finds at least one match in the text and every match found has a
\* non-empty name, quantity > 0 and price >= 0, the result is success with
\* type 'itemized' and exactly those matches in text order; a prepaid result
\* arises only when the itemized pattern found no match or an invalid one.
C18_ItemizedFirst ==
  (pc = "parse.done" /\ text.type = "string" /\ text.str # <<>>) =>
    LET found == ItemizedFound(text.str)
    IN /\ (found # <<>> /\ AllValidItemized(found)) =>
            parseResult = [success |-> TRUE, items |-> found,
                           type |-> "itemized", error |-> "null"]
       /\ (parseResult.success /\ parseResult.type = "prepaid") =>
            (found = <<>> \/ ~AllValidItemized(found))

C18_Witness ==
  /\ pc = "parse.done"
  /\ text = Str(<<"a", " ", "1", "@", "5", ",", "b", " ", "1", "2">>)
  /\ parseResult.success
  /\ parseResult.type = "itemized"
  /\ parseResult.items = <<Item(<<"a">>, 1, 500)>>

\* s[i..j] is a complete integer token of s
IsToken(s, i, j) ==
  /\ 1 <= i /\ i <= j /\ j <= Len(s)
  /\ \A k \in i..j : s[k] \in Digit
  /\ i = 1 \/ s[i - 1] \notin Digit
  /\ j = Len(s) \/ s[j + 1] \notin Digit

\* position j of s is followed by optional whitespace and '@'
PriceFollows(s, j) ==
  \E k \in (j + 1)..Len(s) :
    s[k] = "@" /\ \A l \in (j + 1)..(k - 1) : s[l] \in Space

\* name, then whitespace, ends right before position i of s
NamePrecedes(s, name, i) ==
  \E e \in 1..(i - 2) :
    /\ \A l \in (e + 1)..(i - 1) : s[l] \in Space
    /\ e >= Len(name)
    /\ SubSeq(s, e - Len(name) + 1, e) = name

\* C19: every item of a prepaid result comes from a '<name> <integer>'
\* occurrence whose integer is not followed by an '@' price suffix, and its
\* quantity is the complete integer token written in the text, also when
\* the prepaid pattern runs because the itemized attempt was rejected for an
\* invalid match in a text that contains priced entries.
C19_PrepaidFromUnpricedTokens ==
  (pc = "parse.done" /\ parseResult.success /\ parseResult.type = "prepaid") =>
    LET c == trim(text.str)
    IN \A k \in 1..Len(parseResult.items) :
         \E i \in 1..Len(c) : \E j \in i..Len(c) :
           /\ IsToken(c, i, j)
           /\ parseInt(SubSeq(c, i, j)) = parseResult.items[k].quantity
           /\ ~PriceFollows(c, j)
           /\ NamePrecedes(c, parseResult.items[k].name, i)

\* ------------------------------------------------------------------------
\* Properties of determineOrderField
\* ------------------------------------------------------------------------
Populated(v) == v.type = "string" /\ v.str # <<>>
Hint(t) == IF t.type = "string" THEN toLowerCase(t.str) ELSE <<>>

\* C7: with both fields populated the result is field2 if the declared type
\* contains 'pickup' or 'delivery' (case-insensitive), else field1 if it
\* contains 'order', else field1 only if field1 is strictly longer than
\* field2, and field2 otherwise.
C7_FallbackChain ==
  (pc = "select.done" /\ Populated(field1) /\ Populated(field2)) =>
    selected =
      IF includes(Hint(selectedType), S_pickup) \/ includes(Hint(selectedType), S_delivery)
      THEN field2
      ELSE IF includes(Hint(selectedType), S_order) THEN field1
      ELSE IF Len(field1.str) > Len(field2.str) THEN field1
      ELSE field2

C7_Witness ==
  /\ pc = "select.done"
  /\ field1 = Str(<<"a", " ", "1">>)
  /\ field2 = Str(<<"b", " ", "2">>)
  /\ Hint(selectedType) = <<"o", "t", "h", "e", "r">>
  /\ selected = field2

\* C8: the result is null exactly when both fields are empty; when exactly
\* one field is populated the result is that field's text, whatever the
\* declared type.
C8_NullIffBothEmpty ==
  pc = "select.done" =>
    /\ (selected = Null) <=> (~Populated(field1) /\ ~Populated(field2))
    /\ (Populated(field1) /\ ~Populated(field2)) => selected = field1
    /\ (Populated(field2) /\ ~Populated(field1)) => selected = field2

C8_Witness ==
  /\ pc = "select.done"
  /\ Populated(field1)
  /\ field2 = Str(<<>>)
  /\ includes(Hint(selectedType), S_pickup)
  /\ selected = field1

\* ------------------------------------------------------------------------
\* Properties of calculateDeliveryFee
\* ------------------------------------------------------------------------
InZone(zones, name) ==
  \E z \in Range(zones) : includes(toLowerCase(name), toLowerCase(z))

\* C9: for a store name string the fee is 199 if the lower-cased name
\* contains a very-far zone name, else 99 if it contains a far zone name,
\* else 69 if it contains a near zone name, else 0; it is always one of
\* 0, 69, 99, 199.
C9_FeeByZoneOrder ==
  (pc = "fee.done" /\ storeName.type = "string") =>
    /\ InZone(veryFar, storeName.str) => fee = 199
    /\ (~InZone(veryFar, storeName.str) /\ InZone(far, storeName.str)) => fee = 99
    /\ (~InZone(veryFar, storeName.str) /\ ~InZone(far, storeName.str)
          /\ InZone(near, storeName.str)) => fee = 69
    /\ (~InZone(veryFar, storeName.str) /\ ~InZone(far, storeName.str)
          /\ ~InZone(near, storeName.str)) => fee = 0
    /\ fee \in {0, 69, 99, 199}

C9_Witness ==
  /\ pc = "fee.done"
  /\ storeName.type = "string"
  /\ InZone(veryFar, storeName.str)
  /\ InZone(far, storeName.str)
  /\ fee = 199

\* ------------------------------------------------------------------------
\* Properties of onFormSubmit
\* ------------------------------------------------------------------------
Calls(i, fns) == {k \in 1..Len(inv[i].calls) : inv[i].calls[k].fn \in fns}

\* C6: the order source recorded in an order names the field that the
\* selection rule chose, for all field contents.
C6_OrderSourceNamesChosenField ==
  \A i \in 1..Len(inv) :
    inv[i].result.outcome = "Order" =>
      inv[i].result.order.orderSource =
        determineOrderFieldBranch(inv[i].values.orderField1,
                                  inv[i].values.orderField2,
                                  inv[i].values.orderType)

\* C10: for an unprocessed submission the outcome is IncompleteSubmission if
\* the terms field is missing or lacks 'agree' or the email lacks '@';
\* otherwise NoOrderProvided if both order fields are empty; otherwise the
\* parser's failure kind for the selected text; otherwise an order is built.
\* A failing outcome ends the invocation with no receipt, no confirmation
\* email and no row mark.
C10_FirstFailingCheck ==
  \A i \in 1..Len(inv) :
    (inv[i].pc # "start" /\ inv[i].result.outcome # "Duplicate") =>
      LET v == inv[i].values
          r == inv[i].result
          badTerms == ~Populated(v.termsAccepted)
                        \/ ~includes(toLowerCase(v.termsAccepted.str), S_agree)
          badEmail == ~HasAt(v.email.str)
          noOrder == ~Populated(v.orderField1) /\ ~Populated(v.orderField2)
          parsed == parseOrderItemsEnhanced(
                      determineOrderField(v.orderField1, v.orderField2, v.orderType))
      IN /\ r.outcome =
              IF badTerms \/ badEmail THEN "IncompleteSubmission"
              ELSE IF noOrder THEN "NoOrderProvided"
              ELSE IF ~parsed.success THEN "Unparseable"
              ELSE "Order"
         /\ r.outcome = "Unparseable" =>
              /\ r.error = parsed.error
              /\ inv[i].calls = <<Call("sendFormatCorrectionEmail", parsed.error)>>
         /\ r.outcome # "Order" =>
              /\ inv[i].pc = "done"
              /\ Calls(i, {"generateReceiptPDFWithFallback", "backupReceiptToMonth",
                           "sendEmailConfirmation", "setValue",
                           "sendInstantOrderPing"}) = {}
              /\ ~isDuplicate(sheet[inv[i].rowIndex].receipt)

C10_Witness ==
  \E i \in 1..Len(inv) :
    /\ inv[i].pc = "done"
    /\ ~Populated(inv[i].values.termsAccepted)
    /\ ~Populated(inv[i].values.orderField1)
    /\ ~Populated(inv[i].values.orderField2)
    /\ inv[i].result.outcome = "IncompleteSubmission"
    /\ inv[i].calls = <<Call("sendError", "incomplete")>>

NoZone(store) ==
  \/ store.type # "string"
  \/ store.str = <<>>
  \/ ~InZone(veryFar, store.str) /\ ~InZone(far, store.str) /\ ~InZone(near, store.str)

\* a submission that passes every check of onFormSubmit ahead of the fee
Acceptable(v) ==
  /\ Populated(v.termsAccepted)
  /\ includes(toLowerCase(v.termsAccepted.str), S_agree)
  /\ HasAt(v.email.str)
  /\ Populated(v.orderField1) \/ Populated(v.orderField2)
  /\ parseOrderItemsEnhanced(
       determineOrderField(v.orderField1, v.orderField2, v.orderType)).success

\* C16: for a store that is empty, null, undefined, not a string or matches
\* no zone name calculateDeliveryFee returns 0, and a submission with such a
\* store is still built into an order, with total equal to subtotal.
C16_NoZoneNoFee ==
  /\ (pc = "fee.done" /\ NoZone(storeName)) => fee = 0
  /\ \A i \in 1..Len(inv) :
       (/\ inv[i].pc # "start"
        /\ inv[i].result.outcome # "Duplicate"
        /\ NoZone(inv[i].values.store)
        /\ Acceptable(inv[i].values)) =>
         /\ inv[i].result.outcome = "Order"
         /\ inv[i].result.order.deliveryFee = 0
         /\ inv[i].result.order.total = inv[i].result.order.subtotal

C16_Witness ==
  \E i \in 1..Len(inv) :
    /\ inv[i].values.store = Str(<<>>)
    /\ inv[i].result.outcome = "Order"
    /\ inv[i].result.order.deliveryFee = 0
    /\ inv[i].result.order.subtotal = 500
    /\ inv[i].result.order.total = 500

\* the sum of quantity x price over items, in hundredths
RECURSIVE SumOfLines(_)
SumOfLines(items) ==
  IF items = <<>> THEN 0
  ELSE Head(items).quantity * Head(items).price + SumOfLines(Tail(items))

\* C11: every order built by onFormSubmit has subtotal equal to the sum of
\* quantity x price over its items (so subtotal >= 0), deliveryFee equal to
\* calculateDeliveryFee(store) and total equal to subtotal + deliveryFee; a
\* prepaid order has subtotal 0 and total equal to the fee.
C11_OrderTotals ==
  \A i \in 1..Len(inv) :
    inv[i].result.outcome = "Order" =>
      LET o == inv[i].result.order
      IN /\ o.subtotal = SumOfLines(o.items)
         /\ o.subtotal >= 0
         /\ o.deliveryFee = calculateDeliveryFee(inv[i].values.store)
         /\ o.total = o.subtotal + 100 * o.deliveryFee
         /\ o.orderType = "prepaid" => (o.subtotal = 0 /\ o.total = 100 * o.deliveryFee)

C11_Witness ==
  \E i \in 1..Len(inv) :
    /\ inv[i].result.outcome = "Order"
    /\ Len(inv[i].result.order.items) = 2
    /\ inv[i].result.order.subtotal = 1150
    /\ inv[i].result.order.deliveryFee = 199
    /\ inv[i].result.order.total = 21050

\* ------------------------------------------------------------------------
\* Properties of sendDailySummary
\* ------------------------------------------------------------------------
\* C2: the summary's totalOrders is the number of rows that pass field
\* selection and parsing, that is the length of summary.orders.
C2_TotalOrdersCountsIncluded ==
  daily.pc # "start" => daily.summary.totalOrders = Len(daily.summary.orders)

RECURSIVE SumOfSubtotals(_)
SumOfSubtotals(orders) ==
  IF orders = <<>> THEN 0 ELSE Head(orders).subtotal + SumOfSubtotals(Tail(orders))

RECURSIVE SumOfFees(_)
SumOfFees(orders) ==
  IF orders = <<>> THEN 0 ELSE Head(orders).deliveryFee + SumOfFees(Tail(orders))

\* C12: in the summary, totalRevenue is the sum of the subtotals of the
\* orders in summary.orders (0 for a prepaid order) and totalDelivery the sum
\* of the fees of all of them, itemized and prepaid alike; skipped rows add
\* to neither.
C12_TotalsSumIncludedOrders ==
  daily.pc # "start" =>
    /\ daily.summary.totalRevenue = SumOfSubtotals(daily.summary.orders)
    /\ daily.summary.totalDelivery = SumOfFees(daily.summary.orders)
    /\ \A k \in 1..Len(daily.summary.orders) :
         LET o == daily.summary.orders[k]
         IN /\ o.deliveryFee = calculateDeliveryFee(o.store)
            /\ o.subtotal = SumOfLines(o.items)
            /\ o.orderType = "prepaid" => o.subtotal = 0

C12_Witness ==
  /\ daily.pc = "built"
  /\ Len(daily.summary.orders) = 2
  /\ daily.summary.totalOrders = 3
  /\ \E k \in 1..2 : /\ daily.summary.orders[k].orderType = "prepaid"
                      /\ daily.summary.orders[k].deliveryFee = 199
  /\ daily.summary.totalRevenue = 500
  /\ daily.summary.totalDelivery = 268

\* the stores of a list of orders, each once, in the order first seen
RECURSIVE FirstSeenStores(_)
FirstSeenStores(orders) ==
  IF orders = <<>> THEN <<>>
  ELSE LET before == FirstSeenStores(SubSeq(orders, 1, Len(orders) - 1))
           store == orders[Len(orders)].store
       IN IF \E k \in 1..Len(before) : before[k] = store THEN before
          ELSE Append(before, store)

OrdersOfStore(orders, store) ==
  LET ofStore(o) == o.store = store IN SelectSeq(orders, ofStore)

\* C13: the store groups enumerate in the order in which each store was
\* first seen among the included rows, for every store name; each group
\* holds exactly the included orders of its store in arrival order; every
\* included order is in exactly one group and no group exists for a store
\* that appears only in skipped rows.
C13_StoreGroupsFirstSeen ==
  daily.pc = "built" =>
    LET groups == daily.summary.storeGroups
        orders == daily.summary.orders
    IN /\ [k \in 1..Len(groups) |-> groups[k].store] = FirstSeenStores(orders)
       /\ \A k \in 1..Len(groups) :
            groups[k].orders = OrdersOfStore(orders, groups[k].store)

\* the orders sendDailySummary accumulates from the sheet, in arrival order
Accumulated == buildSummary([k \in 1..Len(sheet) |-> sheet[k].values])

IsAscending(orders) ==
  \A i \in 1..Len(orders) : \A j \in i..Len(orders) : ~Earlier(orders[j], orders[i])

Occurrences(orders, o) == Cardinality({k \in 1..Len(orders) : orders[k] = o})

IsPermutation(a, b) ==
  /\ Len(a) = Len(b)
  /\ \A k \in 1..Len(a) : Occurrences(a, a[k]) = Occurrences(b, a[k])

PdfProduced ==
  \E k \in 1..Len(daily.calls) :
    daily.calls[k] = Call("generateDispatchPDFWithFallback", "pdf")

\* C14: in every dispatch listing produced from a summary (PDF, text and
\* HTML) the orders appear in ascending timestamp order whatever the order
\* of the input rows, and the listing is a permutation of the summary's
\* orders.
C14_ListingsChronological ==
  daily.pc = "done" =>
    /\ IsAscending(daily.listings.text)
    /\ IsPermutation(daily.listings.text, Accumulated.orders)
    /\ IsAscending(daily.listings.html)
    /\ IsPermutation(daily.listings.html, Accumulated.orders)
    /\ PdfProduced =>
         /\ IsAscending(daily.listings.pdf)
         /\ IsPermutation(daily.listings.pdf, Accumulated.orders)

C14_Witness ==
  /\ daily.pc = "done"
  /\ PdfProduced
  /\ Len(daily.listings.pdf) = 3
  /\ ~IsAscending(Accumulated.orders)
  /\ IsAscending(daily.listings.pdf)
  /\ daily.listings.text = daily.listings.pdf
  /\ daily.listings.html = daily.listings.pdf

\* C20: rendering a summary with generateDispatchPDF, generateDispatchText
\* or generateDispatchHTML leaves it unchanged: summary.orders keeps the
\* arrival order in which sendDailySummary accumulated it, and the totals
\* and the store groups are unchanged.
C20_RenderingLeavesSummaryUnchanged ==
  daily.pc = "done" => daily.summary = Accumulated

\* today's rows of the sheet, and those of them that pass field selection
\* and parsing
TodayRows == todayOrders([k \in 1..Len(sheet) |-> sheet[k].values])

Passes(row) ==
  LET rawOrder == determineOrderField(row.orderField1, row.orderField2, row.orderType)
  IN Truthy(rawOrder) /\ parseOrderItemsEnhanced(rawOrder).success

PassingRows == SelectSeq(TodayRows, Passes)

\* C21: the daily aggregation repeats the per-submission pipeline: for every
\* row of the day that passes field selection and parsing the summary
\* records exactly one order, whose items, detected type, subtotal, fee and
\* order source are the ones onFormSubmit computes for a submission with
\* the same field values.
C21_AggregationRepeatsPipeline ==
  daily.pc = "built" =>
    /\ Len(daily.summary.orders) = Len(PassingRows)
    /\ \A k \in 1..Len(PassingRows) :
         LET o == daily.summary.orders[k]
             r == onFormSubmitResult(PassingRows[k])
         IN /\ o.timestamp = PassingRows[k].timestamp
            /\ r.outcome = "Order" =>
                 /\ o.items = r.order.items
                 /\ o.orderType = r.order.orderType
                 /\ o.subtotal = r.order.subtotal
                 /\ o.deliveryFee = r.order.deliveryFee
                 /\ o.orderSource = r.order.orderSource

C21_Witness ==
  /\ daily.pc = "built"
  /\ Len(TodayRows) = 3
  /\ Len(PassingRows) = 2
  /\ \E k \in 1..2 :
       /\ onFormSubmitResult(PassingRows[k]).outcome = "Order"
       /\ daily.summary.orders[k].orderType = "prepaid"
       /\ daily.summary.orders[k].deliveryFee = 199
       /\ daily.summary.orders[k].orderSource = "field2"

\* C26: every order in the daily summary belongs to a submission that
\* onFormSubmit accepts: a row whose terms field lacks 'agree' or whose
\* email lacks '@' is not included in summary.orders, the store groups,
\* totalRevenue or totalDelivery.
C26_OnlyAcceptedSubmissions ==
  daily.pc # "start" =>
    \A k \in 1..Len(daily.summary.orders) :
      \E j \in 1..Len(sheet) :
        /\ ~incomplete(sheet[j].values)
        /\ sheet[j].values.timestamp = daily.summary.orders[k].timestamp
        /\ sheet[j].values.email = daily.summary.orders[k].email
        /\ sheet[j].values.store = daily.summary.orders[k].store

DailyCalls(fn, args) ==
  {k \in 1..Len(daily.calls) : daily.calls[k].fn = fn /\ daily.calls[k].arg \in args}

\* C28: sendDailySummary attempts the dispatch email exactly once per run
\* and the fallback text-only email at most once, after the first attempt;
\* a failure of the fallback is not propagated; a failed dispatch PDF
\* generation does not prevent the first email, which is then sent without
\* attachment and without a dispatch backup.
C28_DispatchEmailOnce ==
  daily.pc \in {"done", "thrown"} =>
    /\ daily.pc = "done"
    /\ Cardinality(DailyCalls("sendEmail", {"attached", "no_attachment"})) = 1
    /\ Cardinality(DailyCalls("sendEmail", {"fallback"})) <= 1
    /\ \A k \in DailyCalls("sendEmail", {"fallback"}) :
         \A j \in DailyCalls("sendEmail", {"attached", "no_attachment"}) : j < k
    /\ ~PdfProduced =>
         /\ DailyCalls("sendEmail", {"attached"}) = {}
         /\ DailyCalls("backupDispatchToMonth", {"pdf"}) = {}

\* ------------------------------------------------------------------------
\* Properties of the delivery step and of interleaved invocations
\* ------------------------------------------------------------------------
Position(i, fn) ==
  IF Calls(i, {fn}) = {} THEN 0 ELSE CHOOSE k \in Calls(i, {fn}) : TRUE

Ended(i) == inv[i].pc \in {"done", "thrown"}

\* C22 (invocation i is the one fired for row i of the sheet): when two submissions are handled by interleaved invocations, each
\* invocation reads the processed mark of, and writes it to, the row of the
\* submission it was invoked for; no submission is skipped as a duplicate,
\* left unmarked or marked because of another submission's row.
C22_OwnRow ==
  \A i \in 1..Len(inv) :
    inv[i].pc # "start" =>
      /\ inv[i].rowIndex = i
      /\ inv[i].success = "true" => isDuplicate(sheet[i].receipt)
      /\ isDuplicate(sheet[i].receipt) =>
           (inv[i].success = "true" \/ inv[i].result.outcome = "Duplicate")

\* C23: the processed mark is written and the admin ping sent only after
\* sendEmailConfirmation returned true for the submission, the mark before
\* the ping; on every other path (incomplete submission, no order, parse
\* failure, confirmation email failure) the row stays unmarked and no ping
\* is sent.
C23_MarkOnlyAfterConfirmation ==
  \A i \in 1..Len(inv) :
    /\ Calls(i, {"setValue", "sendInstantOrderPing"}) # {} =>
         /\ inv[i].success = "true"
         /\ 0 < Position(i, "sendEmailConfirmation")
         /\ Position(i, "sendEmailConfirmation") < Position(i, "setValue")
         /\ Position(i, "setValue") < Position(i, "sendInstantOrderPing")
    /\ (Ended(i) /\ inv[i].result.outcome # "Duplicate" /\ inv[i].success # "true") =>
         /\ ~isDuplicate(sheet[inv[i].rowIndex].receipt)
         /\ Calls(i, {"setValue", "sendInstantOrderPing"}) = {}
    /\ (Ended(i) /\ inv[i].success = "true") =>
         /\ isDuplicate(sheet[inv[i].rowIndex].receipt)
         /\ Calls(i, {"setValue"}) # {} /\ Calls(i, {"sendInstantOrderPing"}) # {}

C23_Witness ==
  \E i \in 1..Len(inv) :
    /\ inv[i].pc = "done"
    /\ inv[i].result.outcome = "Order"
    /\ inv[i].success = "false"
    /\ Calls(i, {"sendEmailConfirmation"}) # {}
    /\ ~isDuplicate(sheet[inv[i].rowIndex].receipt)

\* C24: if the receipt column of the submission's row already contains the
\* check mark when onFormSubmit starts, the invocation sends no email,
\* generates no receipt and no backup and leaves the sheet unchanged.
C24_ProcessedRowIsSkipped ==
  [][\A i \in 1..Len(inv) :
       (inv[i].pc = "start" /\ inv'[i].pc # "start" /\ isDuplicate(sheet[i].receipt)) =>
         /\ inv'[i].pc = "done"
         /\ inv'[i].calls = <<>>
         /\ sheet' = sheet]_vars

\* C25: for one successfully processed submission the delivery code printed
\* in the receipt PDF, the one in the customer's confirmation email and the
\* one in the admin ping are the same code.
C25_OneDeliveryCode ==
  \A i \in 1..Len(inv) :
    (inv[i].pc = "done" /\ inv[i].success = "true") =>
      /\ inv[i].codes.email = inv[i].codes.ping
      /\ inv[i].codes.receipt # "none" => inv[i].codes.receipt = inv[i].codes.email

PdfFailed(i) ==
  \E k \in 1..Len(inv[i].calls) :
    /\ inv[i].calls[k].fn = "generateReceiptPDFWithFallback"
    /\ inv[i].calls[k].arg # "pdf"

\* C27: if generateReceiptPDF fails, onFormSubmit still sends the
\* confirmation email, with fallback = true and no attachment, makes no
\* receipt backup, and marks the row when that email succeeds;
\* backupReceiptToMonth is called only when a receipt PDF was produced.
C27_ReceiptFallback ==
  \A i \in 1..Len(inv) :
    /\ (Ended(i) /\ PdfFailed(i)) =>
         /\ \E k \in 1..Len(inv[i].calls) :
              inv[i].calls[k] = Call("sendEmailConfirmation", "fallback")
         /\ Calls(i, {"backupReceiptToMonth"}) = {}
         /\ inv[i].success = "true" => isDuplicate(sheet[inv[i].rowIndex].receipt)
    /\ Calls(i, {"backupReceiptToMonth"}) # {} => ~PdfFailed(i)

\* ------------------------------------------------------------------------
\* Properties of createDailyTriggers
\* ------------------------------------------------------------------------
TriggersOf(list, handlers) ==
  LET of(h) == h \in handlers IN SelectSeq(list, of)

\* C29: after createDailyTriggers completes exactly one trigger with
\* handler sendDailySummary exists, whatever number of them existed before,
\* and the triggers of all other handlers are unchanged; calling it any
\* number of times never accumulates triggers.
C29_OneDailyTrigger ==
  [][pc' = "triggers.createDailyTriggers" =>
       /\ Len(TriggersOf(triggers', {"sendDailySummary"})) = 1
       /\ TriggersOf(triggers', Handlers \ {"sendDailySummary"})
            = TriggersOf(triggers, Handlers \ {"sendDailySummary"})]_vars

C29_Witness ==
  /\ pc = "triggers.createDailyTriggers"
  /\ triggers = <<"onFormSubmit", "cleanupOldBackups", "sendDailySummary">>

==========================================================================
